---- MODULE Spec2Model ----
(***************************************************************************)
(* State-machine model of the QSYM backend of the SymCC runtime            *)
(* (runtime/qsym_backend/Runtime.cpp, built with WITH_SANITIZER_RUNTIME):  *)
(* the expression registry, the garbage collector, the path-constraint     *)
(* submitter and the deferred address-constraint queue.                    *)
(*                                                                         *)
(* An expression identity (SymExpr, a raw pointer) is the index of the     *)
(* node in exprs.  The expression builder is an external collaborator; it  *)
(* is modelled as always returning a freshly allocated node whose          *)
(* dependency set is the union of its operands' dependency sets.           *)
(* The solver is external as well: jcc is the log of the addJcc calls.     *)
(* Callers pass only identities that are still in the registry (the        *)
(* runtime's contract); identities the runtime itself stored earlier are   *)
(* looked up as the code looks them up, and std::map::at throwing          *)
(* std::out_of_range through the C entry point ends the process.           *)
(*                                                                         *)
(* Spec is the runtime after a successful _sym_initialize.  The other      *)
(* specifications each exercise one part of the runtime on the same state: *)
(* SpecInitialize the threads that call _sym_initialize, SpecFeasible the  *)
(* Z3 assertion stack under _sym_feasible, SpecSaveValues the test-case    *)
(* handler, SpecPush the two path-constraint entry points, and SpecDrain a *)
(* caller that drains the deferred queue by repeated verify calls.         *)
(***************************************************************************)
EXTENDS Integers, Sequences, FiniteSets

\* ---------------------------------------------------------------- bounds
MaxOffset == 1      \* input-byte offsets are 0..MaxOffset
MaxNodes == 3       \* expression nodes the instrumented program builds
MaxHeap == 6        \* expression nodes the heap holds, the runtime's own included
MaxJcc == 1         \* path constraints the instrumented program submits

MaxThreads == 2     \* threads of the instrumented program
MaxCalls == 2       \* _sym_initialize calls each thread makes
MaxFeasible == 2    \* _sym_feasible calls
MaxSaves == 2       \* saveValues calls

Offsets == 0..MaxOffset
ByteValues == {65}           \* concrete values of input bytes
ConcreteAddrs == {4096}      \* concrete addresses of symbolic accesses
SiteIds == {7}               \* branch site identifiers
Thresholds == {2}            \* g_config.garbageCollectionThreshold
NULL == 0                    \* the null SymExpr, the null TestCaseHandler
Takens == {0, 1, 2}          \* values of the int parameter taken
Threads == 1..MaxThreads
Handlers == {1, 2}           \* addresses of the handlers the program registers
Suffixes == {"", "optimistic"}    \* suffixes the solver saves test cases under

\* the configuration the process is started with (environment variables and
\* command line) and the state of the output directory in the file system
Environments ==
    [input : {"NoInput", "Symbolic"},
     outputDir : {"missing", "file", "directory"},
     pruning : BOOLEAN]

\* g_config before loadConfig() has run
Unloaded == [input |-> "unset", pruning |-> FALSE]

\* g_config after loadConfig() has run in environment env
LoadedConfig(env) == [input |-> env.input, pruning |-> env.pruning]

\* the drain loop has not started
NoDrain == [branch |-> NULL, entries |-> {}, submitted |-> 0, exact |-> {}]

VARIABLES
    exprs,                    \* the heap of expression nodes, by identity
    allocatedExpressions,     \* identities the registry holds a reference for
    g_delay_constraint_queue, \* dependency-set owner -> <<addr, concrete_addr>>
    g_exact_dependencies,     \* offsets already resolved
    jcc,                      \* g_solver->addJcc calls, in order
    inputs_,                  \* EnhancedQsymSolver::inputs_
    garbageCollectionThreshold,
    aborted,                  \* an uncaught exception ended the process
    environment,              \* what the process was started with
    g_initialized,            \* the std::atomic_flag
    thread_pc,                \* where each thread is inside _sym_initialize
    returned,                 \* _sym_initialize calls each thread has returned from
    g_config,                 \* the configuration loadConfig() filled in
    g_solver,
    g_expr_builder,
    exit_status,              \* <<>> while the process runs, <<status>> after exit()
    setup_calls,              \* the threads whose call went past the latch, in order
    dir_checks,               \* validations of the output directory so far
    solver_,                  \* the Z3 solver's assertion stack, base frame first
    z3_calls,                 \* the calls made on the Z3 solver, in order
    g_test_case_handler,
    handler_calls,            \* invocations of the registered handler, in order
    saved,                    \* Solver::saveValues calls (default persistence), in order
    drain                     \* the caller's drain loop over the deferred queue

\* the state of the registry, the queue and the path-constraint submitter
runtimeVars == <<exprs, allocatedExpressions, g_delay_constraint_queue,
                 g_exact_dependencies, jcc, inputs_, garbageCollectionThreshold,
                 aborted>>

lifecycleVars == <<environment, g_initialized, thread_pc, returned, g_config, g_solver,
                   g_expr_builder, exit_status, setup_calls, dir_checks>>

solverVars == <<solver_, z3_calls>>

handlerVars == <<g_test_case_handler, handler_calls, saved>>

\* what the expression, queue and collector entry points leave alone
restVars == <<lifecycleVars, solverVars, handlerVars, drain>>

vars == <<runtimeVars, restVars>>

Ids == 1..Len(exprs)

\* node->getDependencies(): the dependency set of the node with identity e
getDependencies(e) == exprs[e].deps

\* std::includes(a.begin(), a.end(), b.begin(), b.end()) on ordered sets
includes(a, b) == \A x \in b : x \in a

Node(kind, deps, a, b, val, bits) ==
    [kind |-> kind, deps |-> deps, a |-> a, b |-> b, val |-> val, bits |-> bits]

\* registerExpression: the identity is added unless it is already a key
registerExpression(registry, e) ==
    IF e \in registry THEN registry ELSE registry \cup {e}

\* EnhancedQsymSolver::pushInputByte: grow the buffer with zeros, store value
pushInputByte(buf, offset, value) ==
    LET grown == IF Len(buf) <= offset
                 THEN buf \o [i \in 1..(offset + 1 - Len(buf)) |-> 0]
                 ELSE buf
    IN [grown EXCEPT ![offset + 1] = value]

\* the registry, the queue and the submitter before the first call
RuntimeInit ==
    /\ exprs = <<>>
    /\ allocatedExpressions = {}
    /\ g_delay_constraint_queue = <<>>
    /\ g_exact_dependencies = {}
    /\ jcc = <<>>
    /\ inputs_ = <<>>
    /\ garbageCollectionThreshold \in Thresholds
    /\ aborted = FALSE

\* the globals as the loader leaves them: the flag clear, the pointers null
LifecycleStart ==
    /\ environment \in Environments
    /\ g_initialized = FALSE
    /\ thread_pc = [t \in Threads |-> "idle"]
    /\ returned = [t \in Threads |-> 0]
    /\ g_config = Unloaded
    /\ g_solver = "null"
    /\ g_expr_builder = "null"
    /\ exit_status = <<>>
    /\ setup_calls = <<>>
    /\ dir_checks = 0

\* the globals after thread 1's _sym_initialize has returned, with symbolic
\* input and an output directory that exists
LifecycleReady ==
    /\ environment = [input |-> "Symbolic", outputDir |-> "directory", pruning |-> FALSE]
    /\ g_initialized = TRUE
    /\ thread_pc = [t \in Threads |-> "idle"]
    /\ returned = [t \in Threads |-> IF t = 1 THEN 1 ELSE 0]
    /\ g_config = LoadedConfig(environment)
    /\ g_solver = "EnhancedQsymSolver"
    /\ g_expr_builder = "SymbolicExprBuilder"
    /\ exit_status = <<>>
    /\ setup_calls = <<1>>
    /\ dir_checks = 1

\* a newly constructed z3::solver: the base frame, holding no assertion
SolverInit ==
    /\ solver_ = <<{}>>
    /\ z3_calls = <<>>

HandlerInit ==
    /\ g_test_case_handler = NULL
    /\ handler_calls = <<>>
    /\ saved = <<>>

Init ==
    /\ RuntimeInit
    /\ LifecycleReady
    /\ SolverInit
    /\ HandlerInit
    /\ drain = NoDrain

\* ------------------------------------------------ expression construction
_sym_get_input_byte(offset, value) ==
    /\ ~aborted
    /\ Len(exprs) < MaxNodes
    /\ inputs_' = pushInputByte(inputs_, offset, value)
    /\ exprs' = Append(exprs, Node("read", {offset}, NULL, NULL, offset, 8))
    /\ allocatedExpressions' = registerExpression(allocatedExpressions, Len(exprs) + 1)
    /\ UNCHANGED <<g_delay_constraint_queue, g_exact_dependencies, jcc,
                   garbageCollectionThreshold, aborted>>
    /\ UNCHANGED restVars

_sym_build_integer(value, bits) ==
    /\ ~aborted
    /\ Len(exprs) < MaxNodes
    /\ exprs' = Append(exprs, Node("const", {}, NULL, NULL, value, bits))
    /\ allocatedExpressions' = registerExpression(allocatedExpressions, Len(exprs) + 1)
    /\ UNCHANGED <<g_delay_constraint_queue, g_exact_dependencies, jcc, inputs_,
                   garbageCollectionThreshold, aborted>>
    /\ UNCHANGED restVars

\* DEF_BINARY_EXPR_BUILDER(add, Add); both operands are looked up with at()
_sym_build_add(a, b) ==
    /\ ~aborted
    /\ Len(exprs) < MaxNodes
    /\ a \in allocatedExpressions
    /\ b \in allocatedExpressions
    /\ exprs' = Append(exprs, Node("add", getDependencies(a) \cup getDependencies(b),
                                   a, b, 0, exprs[a].bits))
    /\ allocatedExpressions' = registerExpression(allocatedExpressions, Len(exprs) + 1)
    /\ UNCHANGED <<g_delay_constraint_queue, g_exact_dependencies, jcc, inputs_,
                   garbageCollectionThreshold, aborted>>
    /\ UNCHANGED restVars

\* -------------------------------------------------- path-constraint submitter
\* g_solver->addJcc(e, taken, site_id, is_asan)
addJcc(log, e, taken, site_id, is_asan) ==
    Append(log, [e |-> e, taken |-> taken, site |-> site_id, asan |-> is_asan])

\* faulty variant: the branch counts as taken only when taken is 1
PushedJcc_TakenIsOne(log, constraint, taken, site_id, is_asan) ==
    IF constraint = NULL
    THEN log
    ELSE addJcc(log, constraint, taken = 1, site_id, is_asan)

\* the addJcc calls after a push of (constraint, taken, site_id): none is added
\* for the null constraint
PushedJcc(log, constraint, taken, site_id, is_asan) ==
    IF constraint = NULL
    THEN log
    ELSE addJcc(log, constraint, taken # 0, site_id, is_asan)

_sym_push_path_constraint(constraint, taken, site_id) ==
    /\ ~aborted
    /\ constraint \in allocatedExpressions \cup {NULL}
    /\ Len(jcc) < MaxJcc
    /\ jcc' = PushedJcc(jcc, constraint, taken, site_id, FALSE)
    /\ UNCHANGED <<exprs, allocatedExpressions, g_delay_constraint_queue,
                   g_exact_dependencies, inputs_, garbageCollectionThreshold,
                   aborted>>
    /\ UNCHANGED restVars

_sym_asan_push_path_constraint(constraint, taken, site_id) ==
    /\ ~aborted
    /\ constraint \in allocatedExpressions \cup {NULL}
    /\ Len(jcc) < MaxJcc
    /\ jcc' = PushedJcc(jcc, constraint, taken, site_id, TRUE)
    /\ UNCHANGED <<exprs, allocatedExpressions, g_delay_constraint_queue,
                   g_exact_dependencies, inputs_, garbageCollectionThreshold,
                   aborted>>
    /\ UNCHANGED restVars

\* ------------------------------------------ deferred address-constraint queue
\* The queue is keyed by the DependencySet* of the inserted node, which is
\* unique to that node: the key is modelled by the node's identity.
QueueKeys == DOMAIN g_delay_constraint_queue

\* faulty variant: the scan drops a candidate that includes a resident set
InsertIsDropped_SupersetScan(queue, exact, dep) ==
    \/ includes(exact, dep)
    \/ \E k \in DOMAIN queue : includes(dep, getDependencies(k))

\* the early returns of _sym_asan_insert_symbolic_addr_node
InsertIsDropped(queue, exact, dep) ==
    \/ includes(exact, dep)
    \/ \E k \in DOMAIN queue : includes(getDependencies(k), dep)

\* faulty variant: the scan of the resident entries is skipped
InsertedQueue_NoScan(queue, exact, value, addr, concrete_addr) ==
    IF includes(exact, getDependencies(value))
    THEN queue
    ELSE [k \in DOMAIN queue \cup {value} |->
            IF k = value THEN <<addr, concrete_addr>> ELSE queue[k]]

\* the queue after _sym_asan_insert_symbolic_addr_node(value, addr, concrete_addr)
InsertedQueue(queue, exact, value, addr, concrete_addr) ==
    IF InsertIsDropped(queue, exact, getDependencies(value))
    THEN queue
    ELSE [k \in DOMAIN queue \cup {value} |->
            IF k \in DOMAIN queue THEN queue[k] ELSE <<addr, concrete_addr>>]

_sym_asan_insert_symbolic_addr_node(value, addr, concrete_addr) ==
    /\ ~aborted
    /\ value \in allocatedExpressions
    /\ addr \in allocatedExpressions
    /\ g_delay_constraint_queue' =
           InsertedQueue(g_delay_constraint_queue, g_exact_dependencies,
                         value, addr, concrete_addr)
    /\ UNCHANGED <<exprs, allocatedExpressions, g_exact_dependencies, jcc,
                   inputs_, garbageCollectionThreshold, aborted>>
    /\ UNCHANGED restVars

\* faulty variant: the scan stops at the first entry, whatever its set
VerifyMatches_Any(queue, br_dep) == DOMAIN queue

\* the entries the scan of _sym_asan_constraint_verify may stop at: the
\* iteration order of the unordered_map is unspecified, so any entry whose
\* dependency set is included in the branch's may be the first one met
VerifyMatches(queue, br_dep) ==
    {k \in DOMAIN queue : includes(br_dep, getDependencies(k))}

\* faulty variant: the promoted entry is left in the queue
erase_Keep(queue, k) == queue

\* faulty variant: the promoted set is assigned instead of merged
merge_Assign(exact, dep) == dep

\* g_exact_dependencies.merge(dep)
merge(exact, dep) == exact \cup dep

\* g_delay_constraint_queue.erase(iter)
erase(queue, k) == [j \in DOMAIN queue \ {k} |-> queue[j]]

\* _sym_asan_constraint_verify(expr), stopping at entry k.  The constant is
\* built and registered first; _sym_build_equal then looks both operands up
\* with at(), which throws when the stored address has left the registry.
VerifyPromote(expr, k) ==
    LET addr_sym == g_delay_constraint_queue[k][1]
        addr_con == g_delay_constraint_queue[k][2]
        c == Len(exprs) + 1
        eq == Len(exprs) + 2
        withConst == registerExpression(allocatedExpressions, c)
        constNode == Node("const", {}, NULL, NULL, addr_con, 64)
    IN IF addr_sym \notin withConst
       THEN /\ exprs' = Append(exprs, constNode)
            /\ allocatedExpressions' = withConst
            /\ aborted' = TRUE
            /\ UNCHANGED <<g_delay_constraint_queue, g_exact_dependencies, jcc>>
       ELSE /\ exprs' = exprs \o <<constNode,
                          Node("equal", getDependencies(addr_sym), c, addr_sym, 0, 1)>>
            /\ allocatedExpressions' = registerExpression(withConst, eq)
            /\ jcc' = addJcc(jcc, eq, TRUE, 0, FALSE)
            /\ g_exact_dependencies' = merge(g_exact_dependencies, getDependencies(k))
            /\ g_delay_constraint_queue' = erase(g_delay_constraint_queue, k)
            /\ UNCHANGED aborted

_sym_asan_constraint_verify(expr) ==
    /\ ~aborted
    /\ expr \in allocatedExpressions
    /\ Len(exprs) + 2 <= MaxHeap \/ drain # NoDrain
    /\ IF \/ QueueKeys = {}
          \/ VerifyMatches(g_delay_constraint_queue, getDependencies(expr)) = {}
       THEN UNCHANGED <<exprs, allocatedExpressions, g_delay_constraint_queue,
                        g_exact_dependencies, jcc, aborted>>
       ELSE \E k \in VerifyMatches(g_delay_constraint_queue, getDependencies(expr)) :
                VerifyPromote(expr, k)
    /\ UNCHANGED <<inputs_, garbageCollectionThreshold>>
    /\ UNCHANGED restVars

\* the value _sym_asan_is_symexpr_exact(expr) returns
IsSymexprExact(exact, dep) ==
    IF exact = {} THEN FALSE
    ELSE IF includes(exact, dep) THEN TRUE ELSE FALSE

_sym_asan_is_symexpr_exact(expr) ==
    /\ ~aborted
    /\ expr \in allocatedExpressions
    /\ UNCHANGED <<exprs, allocatedExpressions, g_delay_constraint_queue,
                   g_exact_dependencies, jcc, inputs_,
                   garbageCollectionThreshold, aborted>>
    /\ UNCHANGED restVars

\* --------------------------------------------------------- garbage collection
\* faulty variant: the sweep keeps the entries that are not reachable
CollectedRegistry_Inverted(registry, threshold, reachable) ==
    IF Cardinality(registry) < threshold
    THEN registry
    ELSE {e \in registry : e \notin reachable}

\* faulty variant: the sweep starts only above the threshold
CollectedRegistry_OffByOne(registry, threshold, reachable) ==
    IF Cardinality(registry) <= threshold
    THEN registry
    ELSE {e \in registry : e \in reachable}

\* faulty variant: the threshold is not consulted
CollectedRegistry_NoGate(registry, threshold, reachable) ==
    {e \in registry : e \in reachable}

\* the registry after _sym_collect_garbage when collectReachableExpressions()
\* returns reachable
CollectedRegistry(registry, threshold, reachable) ==
    IF Cardinality(registry) < threshold
    THEN registry
    ELSE {e \in registry : e \in reachable}

\* collectReachableExpressions(): the identities reachable from the roots the
\* instrumented program holds, which the runtime cannot see
ReachableSets == SUBSET Ids

\* the reachable sets that differ in the registry entries they keep
DistinctSweeps == SUBSET allocatedExpressions

_sym_collect_garbage(reachable) ==
    /\ ~aborted
    /\ allocatedExpressions' =
           CollectedRegistry(allocatedExpressions, garbageCollectionThreshold, reachable)
    /\ UNCHANGED <<exprs, g_delay_constraint_queue, g_exact_dependencies, jcc,
                   inputs_, garbageCollectionThreshold, aborted>>
    /\ UNCHANGED restVars

\* the expression, queue and path-constraint entry points, without the collector
NextPush ==
    \/ \E o \in Offsets, v \in ByteValues : _sym_get_input_byte(o, v)
    \/ \E v \in ConcreteAddrs : _sym_build_integer(v, 64)
    \/ \E a \in Ids, b \in Ids : _sym_build_add(a, b)
    \/ \E c \in Ids \cup {NULL}, t \in Takens, s \in SiteIds :
           _sym_push_path_constraint(c, t, s)
    \/ \E c \in Ids \cup {NULL}, t \in Takens, s \in SiteIds :
           _sym_asan_push_path_constraint(c, t, s)
    \/ \E v \in Ids, a \in Ids, c \in ConcreteAddrs :
           _sym_asan_insert_symbolic_addr_node(v, a, c)
    \/ \E e \in Ids : _sym_asan_constraint_verify(e)

SpecPush == Init /\ [][NextPush]_vars

\* ------------------------------------------------------------- queue drain
\* The instrumented program starts to drain the queue: from here on it makes
\* no insert, and calls verify with the branch expr again and again.  The heap
\* bound is lifted for these calls, which end with the entries expr covers.
drain_begin(expr) ==
    /\ ~aborted
    /\ drain = NoDrain
    /\ expr \in allocatedExpressions
    /\ VerifyMatches(g_delay_constraint_queue, getDependencies(expr)) # {}
    /\ drain' = [branch |-> expr, entries |-> QueueKeys,
                 submitted |-> Len(jcc), exact |-> g_exact_dependencies]
    /\ UNCHANGED <<runtimeVars, lifecycleVars, solverVars, handlerVars>>

\* one more verify call of the drain
drain_verify ==
    /\ drain # NoDrain
    /\ _sym_asan_constraint_verify(drain.branch)

\* the program before the drain: it builds, inserts and verifies
drain_prepare ==
    /\ drain = NoDrain
    /\ \/ \E o \in Offsets, v \in ByteValues : _sym_get_input_byte(o, v)
       \/ \E v \in ConcreteAddrs : _sym_build_integer(v, 64)
       \/ \E a \in Ids, b \in Ids : _sym_build_add(a, b)
       \/ \E v \in Ids, a \in Ids, c \in ConcreteAddrs :
              _sym_asan_insert_symbolic_addr_node(v, a, c)
       \/ \E e \in Ids : _sym_asan_constraint_verify(e)

NextDrain ==
    \/ drain_prepare
    \/ \E e \in Ids : drain_begin(e)
    \/ drain_verify

\* the drain loop goes on calling verify
SpecDrain == Init /\ [][NextDrain]_vars /\ WF_vars(drain_verify)

\* ------------------------------------------------------------ feasibility
\* z3::solver::push, add and pop on the assertion stack
z3_push(stack) == Append(stack, {})

z3_add(stack, e) == [stack EXCEPT ![Len(stack)] = @ \cup {e}]

z3_pop(stack) == SubSeq(stack, 1, Len(stack) - 1)

z3_call(op, e) == [op |-> op, e |-> e]

\* what a _sym_feasible call meets in Z3: check() answers, or add() or check()
\* raises z3::exception
FeasibleOutcomes == {"sat", "unsat", "unknown", "add throws", "check throws"}

\* faulty variant: the expression is asserted before the scope is pushed
FeasibleStack_AddFirst(stack, expr, outcome) ==
    IF outcome = "add throws" THEN stack
    ELSE IF outcome = "check throws" THEN z3_push(z3_add(stack, expr))
    ELSE z3_pop(z3_push(z3_add(stack, expr)))

\* the assertion stack a _sym_feasible(expr) call leaves: nothing catches the
\* exception, so the statements after the throwing one are not executed
FeasibleStack(stack, expr, outcome) ==
    IF outcome = "add throws" THEN z3_push(stack)
    ELSE IF outcome = "check throws" THEN z3_add(z3_push(stack), expr)
    ELSE z3_pop(z3_add(z3_push(stack), expr))

\* the calls a _sym_feasible(expr) call makes on the solver, in order
FeasibleCalls(expr, outcome) ==
    IF outcome = "add throws"
    THEN <<z3_call("push", NULL), z3_call("add", expr)>>
    ELSE IF outcome = "check throws"
    THEN <<z3_call("push", NULL), z3_call("add", expr), z3_call("check", NULL)>>
    ELSE <<z3_call("push", NULL), z3_call("add", expr), z3_call("check", NULL),
           z3_call("pop", NULL)>>

\* the value _sym_feasible returns when check() answers
FeasibleResult(outcome) == outcome = "sat"

\* _sym_feasible(expr).  expr->simplify() rewrites the node in place and keeps
\* its identity and its dependency set.  A z3::exception leaves through the C
\* entry point: a caller that catches it goes on, otherwise the process ends.
_sym_feasible(expr, outcome, caught) ==
    /\ ~aborted
    /\ expr \in allocatedExpressions
    /\ Len(z3_calls) + 4 <= 4 * MaxFeasible
    /\ solver_' = FeasibleStack(solver_, expr, outcome)
    /\ z3_calls' = z3_calls \o FeasibleCalls(expr, outcome)
    /\ aborted' = IF outcome \in {"add throws", "check throws"} THEN ~caught ELSE aborted
    /\ UNCHANGED <<exprs, allocatedExpressions, g_delay_constraint_queue,
                   g_exact_dependencies, jcc, inputs_, garbageCollectionThreshold>>
    /\ UNCHANGED <<lifecycleVars, handlerVars, drain>>

NextFeasible ==
    \/ \E o \in Offsets, v \in ByteValues : _sym_get_input_byte(o, v)
    \/ \E v \in ConcreteAddrs : _sym_build_integer(v, 64)
    \/ \E a \in Ids, b \in Ids : _sym_build_add(a, b)
    \/ \E e \in Ids, o \in FeasibleOutcomes, caught \in BOOLEAN :
           _sym_feasible(e, o, caught)

SpecFeasible == Init /\ [][NextFeasible]_vars

\* ------------------------------------------------------- test-case handling
\* getConcreteValues(): the concrete-value buffer of the solver
getConcreteValues == inputs_

\* handler(values.data(), values.size())
HandlerCall(handler, values) ==
    [handler |-> handler, data |-> values, size |-> Len(values)]

\* the handler invocations after saveValues
HandlerCallsAfter(handler, calls, values) ==
    IF handler # NULL THEN Append(calls, HandlerCall(handler, values)) ELSE calls

\* faulty variant: the default persistence is performed beside the handler
SavedAfter_Always(handler, log, suffix, values) ==
    Append(log, [suffix |-> suffix, values |-> values])

\* the Solver::saveValues(suffix) calls after saveValues
SavedAfter(handler, log, suffix, values) ==
    IF handler # NULL THEN log
    ELSE Append(log, [suffix |-> suffix, values |-> values])

symcc_set_test_case_handler(handler) ==
    /\ ~aborted
    /\ g_test_case_handler' = handler
    /\ UNCHANGED <<handler_calls, saved>>
    /\ UNCHANGED <<runtimeVars, lifecycleVars, solverVars, drain>>

\* EnhancedQsymSolver::saveValues(suffix), which the solver calls for every
\* satisfying assignment it would persist
saveValues(suffix) ==
    /\ ~aborted
    /\ Len(handler_calls) + Len(saved) < MaxSaves
    /\ handler_calls' = HandlerCallsAfter(g_test_case_handler, handler_calls,
                                          getConcreteValues)
    /\ saved' = SavedAfter(g_test_case_handler, saved, suffix, getConcreteValues)
    /\ UNCHANGED g_test_case_handler
    /\ UNCHANGED <<runtimeVars, lifecycleVars, solverVars, drain>>

NextSaveValues ==
    \/ \E o \in Offsets, v \in ByteValues : _sym_get_input_byte(o, v)
    \/ \E h \in Handlers \cup {NULL} : symcc_set_test_case_handler(h)
    \/ \E x \in Suffixes : saveValues(x)

SpecSaveValues == Init /\ [][NextSaveValues]_vars

\* ----------------------------------------------------------- initialization
\* faulty variant: the flag is tested and left as it was
test_and_set_NoSet(flag) == [old |-> flag, new |-> flag]

\* g_initialized.test_and_set(): one atomic step sets the flag and returns
\* the value it had
test_and_set(flag) == [old |-> flag, new |-> TRUE]

\* faulty variant: only the existence of the output directory is checked
OutputDirInvalid_ExistsOnly(dir) == ~(dir \in {"file", "directory"})

\* !fs::exists(g_config.outputDir) || !fs::is_directory(g_config.outputDir)
OutputDirInvalid(dir) ==
    \/ ~(dir \in {"file", "directory"})
    \/ ~(dir = "directory")

\* the status the parent of the process sees after exit(code)
ExitStatus(code) == code % 256

\* the latch at the head of _sym_initialize, executed by thread t
_sym_initialize_test_and_set(t) ==
    /\ exit_status = <<>>
    /\ thread_pc[t] = "idle"
    /\ returned[t] < MaxCalls
    /\ LET r == test_and_set(g_initialized)
       IN /\ g_initialized' = r.new
          /\ IF r.old
             THEN /\ returned' = [returned EXCEPT ![t] = @ + 1]
                  /\ UNCHANGED <<thread_pc, setup_calls>>
             ELSE /\ thread_pc' = [thread_pc EXCEPT ![t] = "loadConfig"]
                  /\ setup_calls' = Append(setup_calls, t)
                  /\ UNCHANGED returned
    /\ UNCHANGED <<environment, g_config, g_solver, g_expr_builder, exit_status,
                   dir_checks>>
    /\ UNCHANGED <<runtimeVars, solverVars, handlerVars, drain>>

\* loadConfig(), initLibcWrappers() and the test for NoInput
_sym_initialize_loadConfig(t) ==
    /\ exit_status = <<>>
    /\ thread_pc[t] = "loadConfig"
    /\ g_config' = LoadedConfig(environment)
    /\ IF LoadedConfig(environment).input = "NoInput"
       THEN /\ thread_pc' = [thread_pc EXCEPT ![t] = "idle"]
            /\ returned' = [returned EXCEPT ![t] = @ + 1]
       ELSE /\ thread_pc' = [thread_pc EXCEPT ![t] = "checkOutputDir"]
            /\ UNCHANGED returned
    /\ UNCHANGED <<environment, g_initialized, g_solver, g_expr_builder,
                   exit_status, setup_calls, dir_checks>>
    /\ UNCHANGED <<runtimeVars, solverVars, handlerVars, drain>>

\* the check of the output directory, and exit(-1) when it fails
_sym_initialize_checkOutputDir(t) ==
    /\ exit_status = <<>>
    /\ thread_pc[t] = "checkOutputDir"
    /\ dir_checks' = dir_checks + 1
    /\ IF OutputDirInvalid(environment.outputDir)
       THEN /\ exit_status' = <<ExitStatus(-1)>>
            /\ UNCHANGED thread_pc
       ELSE /\ thread_pc' = [thread_pc EXCEPT ![t] = "construct"]
            /\ UNCHANGED exit_status
    /\ UNCHANGED <<environment, g_initialized, returned, g_config, g_solver,
                   g_expr_builder, setup_calls>>
    /\ UNCHANGED <<runtimeVars, solverVars, handlerVars, drain>>

\* the construction of the solver and of the expression builder
_sym_initialize_construct(t) ==
    /\ exit_status = <<>>
    /\ thread_pc[t] = "construct"
    /\ g_solver' = "EnhancedQsymSolver"
    /\ g_expr_builder' = IF g_config.pruning THEN "PruneExprBuilder"
                                             ELSE "SymbolicExprBuilder"
    /\ thread_pc' = [thread_pc EXCEPT ![t] = "idle"]
    /\ returned' = [returned EXCEPT ![t] = @ + 1]
    /\ UNCHANGED <<environment, g_initialized, g_config, exit_status,
                   setup_calls, dir_checks>>
    /\ UNCHANGED <<runtimeVars, solverVars, handlerVars, drain>>

InitInitialize ==
    /\ RuntimeInit
    /\ LifecycleStart
    /\ SolverInit
    /\ HandlerInit
    /\ drain = NoDrain

NextInitialize ==
    \/ \E t \in Threads : _sym_initialize_test_and_set(t)
    \/ \E t \in Threads : _sym_initialize_loadConfig(t)
    \/ \E t \in Threads : _sym_initialize_checkOutputDir(t)
    \/ \E t \in Threads : _sym_initialize_construct(t)

SpecInitialize == InitInitialize /\ [][NextInitialize]_vars

Next ==
    \/ \E o \in Offsets, v \in ByteValues : _sym_get_input_byte(o, v)
    \/ \E v \in ConcreteAddrs : _sym_build_integer(v, 64)
    \/ \E a \in Ids, b \in Ids : _sym_build_add(a, b)
    \/ \E c \in Ids \cup {NULL}, t \in {0, 1}, s \in SiteIds :
           _sym_push_path_constraint(c, t, s)
    \/ \E v \in Ids, a \in Ids, c \in ConcreteAddrs :
           _sym_asan_insert_symbolic_addr_node(v, a, c)
    \/ \E e \in Ids : _sym_asan_constraint_verify(e)
    \/ \E e \in Ids : _sym_asan_is_symexpr_exact(e)
    \/ \E r \in DistinctSweeps : _sym_collect_garbage(r)

Spec == Init /\ [][Next]_vars
\* ===================================================================== claims
\* C1: after any sequence of insert and verify calls, no two distinct resident
\* entries of the deferred queue have dependency sets of which one is a subset
\* of the other.
C1_NoSubsetAmongEntries ==
    \A j \in QueueKeys, k \in QueueKeys :
        j # k => ~includes(getDependencies(k), getDependencies(j))

\* C2: after any sequence of insert and verify calls, no resident entry of the
\* deferred queue has a dependency set that is a subset of the exact
\* dependency set.
C2_NoEntryCoveredByExact ==
    \A k \in QueueKeys : ~includes(g_exact_dependencies, getDependencies(k))

InsertedAsContracted(v, a, c) ==
    LET dep == getDependencies(v)
        q == g_delay_constraint_queue
        after == InsertedQueue(q, g_exact_dependencies, v, a, c)
    IN IF \/ includes(g_exact_dependencies, dep)
          \/ \E k \in QueueKeys : includes(getDependencies(k), dep)
       THEN after = q
       ELSE /\ v \notin DOMAIN q
            /\ DOMAIN after = DOMAIN q \cup {v}
            /\ after[v] = <<a, c>>
            /\ \A k \in DOMAIN q : after[k] = q[k]

\* C4: insert(node, symbolic_addr, concrete_addr) with dep the node's
\* dependency set: if dep is a subset of the exact dependency set, or some
\* resident entry's dependency set is a superset of dep, the queue and the
\* exact dependency set are unchanged; otherwise the queue is the previous
\* queue plus exactly the entry dep -> (symbolic_addr, concrete_addr), and the
\* exact dependency set is unchanged.  (A step that adds a key to the queue is
\* a step of insert.)
C4_InsertContract ==
    /\ [](\A v \in allocatedExpressions, a \in allocatedExpressions,
             c \in ConcreteAddrs : InsertedAsContracted(v, a, c))
    /\ [][(DOMAIN g_delay_constraint_queue' \ QueueKeys # {})
            => g_exact_dependencies' = g_exact_dependencies]_vars

\* C4 witness: an entry was enqueued with the address it was given, and a
\* registered node whose dependency set a resident entry covers is at hand
C4_InsertWitness ==
    \E k \in QueueKeys, v \in allocatedExpressions \ QueueKeys :
        /\ g_delay_constraint_queue[k][1] # k
        /\ includes(getDependencies(k), getDependencies(v))
        /\ ~includes(g_exact_dependencies, getDependencies(v))

\* the step promoted entry k: one path constraint was submitted, the equality
\* of a 64-bit constant for k's concrete address with k's symbolic address,
\* taken, at site 0; the exact set gained k's set; k alone left the queue
Promoted(k) ==
    /\ Len(jcc') = Len(jcc) + 1
    /\ SubSeq(jcc', 1, Len(jcc)) = jcc
    /\ LET pc == jcc'[Len(jcc')]
       IN /\ pc.taken = TRUE
          /\ pc.site = 0
          /\ pc.e \in 1..Len(exprs')
          /\ exprs'[pc.e].kind = "equal"
          /\ exprs'[pc.e].b = g_delay_constraint_queue[k][1]
          /\ exprs'[exprs'[pc.e].a].kind = "const"
          /\ exprs'[exprs'[pc.e].a].val = g_delay_constraint_queue[k][2]
          /\ exprs'[exprs'[pc.e].a].bits = 64
    /\ g_exact_dependencies' = g_exact_dependencies \cup getDependencies(k)
    /\ k \notin DOMAIN g_delay_constraint_queue'
    /\ \A j \in QueueKeys \ {k} :
           /\ j \in DOMAIN g_delay_constraint_queue'
           /\ g_delay_constraint_queue'[j] = g_delay_constraint_queue[j]

\* C5: when verify(branch_node) is called and at least one resident entry's
\* dependency set is a subset of the branch's, exactly one such entry is
\* promoted in that call (one path constraint submitted, the exact set
\* enlarged by that entry's set, that entry alone removed).
C5_VerifyPromotesExactlyOne ==
    [][\A e \in Ids :
        (/\ _sym_asan_constraint_verify(e)
         /\ VerifyMatches(g_delay_constraint_queue, getDependencies(e)) # {})
        => \E k \in VerifyMatches(g_delay_constraint_queue, getDependencies(e)) :
               Promoted(k)]_vars

\* what remains of C5 when the lookup of the stored address succeeds: a call
\* that does not end the process promotes exactly one matching entry
VerifyPromotesUnlessAborted ==
    [][\A e \in Ids :
        (/\ _sym_asan_constraint_verify(e)
         /\ VerifyMatches(g_delay_constraint_queue, getDependencies(e)) # {}
         /\ ~aborted')
        => \E k \in VerifyMatches(g_delay_constraint_queue, getDependencies(e)) :
               Promoted(k)]_vars

\* C6: across every step of insert, verify, is_exact, push_path_constraint and
\* collect_garbage, the exact dependency set after the step is a superset of
\* the exact dependency set before it.
C6_ExactMonotone ==
    [][includes(g_exact_dependencies', g_exact_dependencies)]_vars

\* C6 witness: two promotions have enlarged the exact set, and a sweep has run
C6_ExactGrew ==
    /\ g_exact_dependencies = Offsets
    /\ \E i \in 1..Len(jcc), j \in 1..Len(jcc) :
           i # j /\ exprs[jcc[i].e].kind = "equal" /\ exprs[jcc[j].e].kind = "equal"

\* C7: is_exact(node) returns true if and only if the node's dependency set is
\* a subset of the exact dependency set, an empty exact dependency set and a
\* node with an empty dependency set included.
C7_IsExactIffSubset ==
    \A e \in allocatedExpressions :
        IsSymexprExact(g_exact_dependencies, getDependencies(e))
            <=> (getDependencies(e) \subseteq g_exact_dependencies)

\* C8: every identity that is in the registry before collect_garbage() and in
\* the reachable set of that call is in the registry after it, whatever the
\* threshold and however many collections ran before.
C8_RegistryLiveness ==
    \A r \in ReachableSets :
        \A e \in allocatedExpressions \cap r :
            e \in CollectedRegistry(allocatedExpressions,
                                    garbageCollectionThreshold, r)

\* C8 witness: a sweep has removed an identity and has kept another
C8_SweepKeptSome ==
    /\ allocatedExpressions # {}
    /\ Ids \ allocatedExpressions # {}

\* C9: when collect_garbage() is called with the registry's entry count at or
\* above the threshold, the registry afterwards is the registry before
\* intersected with the reachable set.
C9_RegistryReclamation ==
    \A r \in ReachableSets :
        Cardinality(allocatedExpressions) >= garbageCollectionThreshold
        => CollectedRegistry(allocatedExpressions, garbageCollectionThreshold, r)
               = allocatedExpressions \cap r

\* C9 witness: a sweep at the threshold has emptied the registry
C9_SweptAll ==
    /\ allocatedExpressions = {}
    /\ Len(exprs) = garbageCollectionThreshold

\* C10: when the registry's entry count is strictly below the threshold,
\* collect_garbage() removes nothing and leaves the registry unchanged, even if
\* the registry holds unreachable identities.
C10_ThresholdGated ==
    \A r \in ReachableSets :
        Cardinality(allocatedExpressions) < garbageCollectionThreshold
        => CollectedRegistry(allocatedExpressions, garbageCollectionThreshold, r)
               = allocatedExpressions

\* C10 witness: a sweep has left the registry below the threshold, where its
\* surviving entry stays although no root reaches it
C10_BelowThreshold ==
    /\ allocatedExpressions # {}
    /\ Cardinality(allocatedExpressions) < garbageCollectionThreshold
    /\ Ids \ allocatedExpressions # {}
    /\ \E r \in ReachableSets : allocatedExpressions \cap r = {}

\* C11: after any number of feasible(expr) calls that return, for satisfiable
\* and unsatisfiable expressions alike, the solver's scope depth and its
\* asserted constraints are what they were before: each such call makes
\* exactly one push, one add of expr, one check and one matching pop, in order.
C11_FeasibleBalanced ==
    [][(z3_calls' # z3_calls /\ z3_calls'[Len(z3_calls')].op = "pop")
        => /\ solver_' = solver_
           /\ Len(z3_calls') = Len(z3_calls) + 4
           /\ SubSeq(z3_calls', 1, Len(z3_calls)) = z3_calls
           /\ \E e \in allocatedExpressions :
                  SubSeq(z3_calls', Len(z3_calls) + 1, Len(z3_calls')) =
                      <<z3_call("push", NULL), z3_call("add", e),
                        z3_call("check", NULL), z3_call("pop", NULL)>>]_vars

\* C11 witness: a call has returned inside a scope that an earlier faulting
\* call left pushed
C11_FeasibleReturnedInScope ==
    /\ Len(solver_) = 2
    /\ z3_calls # <<>>
    /\ z3_calls[Len(z3_calls)].op = "pop"

\* C12: if the solver raises a fault while asserting or checking inside
\* feasible(expr), the scope that call pushed is still popped: the scope depth
\* after the call is the depth before it.
C12_ScopePoppedOnFault ==
    [][z3_calls' # z3_calls => Len(solver_') = Len(solver_)]_vars

\* C13: across any interleaving of initialize() calls by any number of
\* threads, the setup body is executed by exactly one call; every other call
\* returns without performing setup, and repeated calls are idempotent.
C13_SetupExactlyOnce ==
    /\ [](/\ Len(setup_calls) <= 1
          /\ g_initialized => Len(setup_calls) = 1
          /\ \A t \in Threads : thread_pc[t] # "idle" => setup_calls = <<t>>)
    /\ [][\A t \in Threads :
            (thread_pc[t] = "idle" /\ returned'[t] # returned[t])
            => /\ returned'[t] = returned[t] + 1
               /\ UNCHANGED <<g_initialized, g_config, g_solver, g_expr_builder,
                              setup_calls, dir_checks, exit_status, thread_pc>>]_vars

\* C13 witness: every thread has returned from two calls, and the call that
\* ran the setup was thread 2's
C13_AllReturned ==
    /\ \A t \in Threads : returned[t] >= 2
    /\ setup_calls = <<2>>
    /\ g_solver # "null"

\* the environment configures symbolic input
SymbolicInput == environment.input = "Symbolic"

\* the output directory exists and is a directory
OutputDirValid == environment.outputDir = "directory"

\* the call that went past the latch has ended: it returned, or it ended the process
SetupCallEnded ==
    /\ setup_calls # <<>>
    /\ \/ thread_pc[setup_calls[1]] = "idle"
       \/ exit_status # <<>>

\* C16: the first initialize() call terminates the process with a non-zero
\* status, before any solver or expression builder is constructed, exactly when
\* symbolic input is configured and the output directory does not exist or is
\* not a directory; with no symbolic input it returns without constructing a
\* solver or an expression builder and without validating the output directory.
C16_ExitOnInvalidOutputDir ==
    /\ exit_status # <<>>
        => /\ exit_status[1] # 0
           /\ SymbolicInput /\ ~OutputDirValid
           /\ g_solver = "null" /\ g_expr_builder = "null"
           /\ returned[setup_calls[1]] = 0
    /\ (SetupCallEnded /\ SymbolicInput /\ ~OutputDirValid) => exit_status # <<>>
    /\ (SymbolicInput /\ ~OutputDirValid)
        => g_solver = "null" /\ g_expr_builder = "null"
    /\ ~SymbolicInput
        => /\ exit_status = <<>>
           /\ g_solver = "null" /\ g_expr_builder = "null"
           /\ dir_checks = 0
           /\ SetupCallEnded => returned[setup_calls[1]] >= 1

\* C16 witness: the process has exited on an output path that is a file, after
\* another thread had returned from initialize()
C16_Exited ==
    /\ exit_status # <<>>
    /\ environment.outputDir = "file"
    /\ \E t \in Threads : returned[t] > 0

\* C20: with symbolic input configured and a valid output directory, whenever
\* any thread's initialize() call has returned, the solver and the expression
\* builder are constructed; no thread returns from initialize() while another
\* thread's setup is still in progress.
C20_ReturnedImpliesReady ==
    (SymbolicInput /\ OutputDirValid /\ \E t \in Threads : returned[t] > 0)
    => /\ g_solver # "null"
       /\ g_expr_builder # "null"

\* C14: push_path_constraint(condition, taken, site_id) with a null condition
\* submits nothing and changes no runtime state; with a present condition it
\* forwards exactly one path constraint carrying that condition, the truth
\* value taken != 0 and that site_id, and touches neither the deferred queue
\* nor the exact dependency set.  (A step that appends to the submitted
\* constraints without building a node is a step of push_path_constraint.)
C14_PushForwardsOne ==
    /\ [](\A t \in Takens, s \in SiteIds, is_asan \in BOOLEAN :
            /\ PushedJcc(jcc, NULL, t, s, is_asan) = jcc
            /\ \A c \in allocatedExpressions :
                   LET after == PushedJcc(jcc, c, t, s, is_asan)
                   IN /\ Len(after) = Len(jcc) + 1
                      /\ SubSeq(after, 1, Len(jcc)) = jcc
                      /\ after[Len(after)].e = c
                      /\ after[Len(after)].taken = (t # 0)
                      /\ after[Len(after)].site = s)
    /\ [][(jcc' # jcc /\ exprs' = exprs)
            => UNCHANGED <<g_delay_constraint_queue, g_exact_dependencies,
                           allocatedExpressions, inputs_, aborted>>]_vars

\* C14 witness: a constraint was pushed through the sanitizer entry point while
\* the queue held an entry and the exact dependency set was not empty
C14_PushedBesideQueue ==
    /\ QueueKeys # {}
    /\ g_exact_dependencies # {}
    /\ \E i \in 1..Len(jcc) : jcc[i].site \in SiteIds /\ jcc[i].asan /\ jcc[i].taken

\* C15: on every save_values call exactly one of two things happens: if a
\* handler is registered it is invoked once with the current concrete-value
\* buffer and the default persistence is not performed; if none is registered
\* (the initial state) the default persistence is performed and no handler is
\* invoked.  (A step that extends either log is a save_values call.)
C15_HandlerOrDefault ==
    /\ g_test_case_handler = NULL
    /\ [][(handler_calls' # handler_calls \/ saved' # saved)
            => IF g_test_case_handler # NULL
               THEN /\ handler_calls' =
                         Append(handler_calls,
                                [handler |-> g_test_case_handler,
                                 data |-> inputs_, size |-> Len(inputs_)])
                    /\ saved' = saved
               ELSE /\ handler_calls' = handler_calls
                    /\ Len(saved') = Len(saved) + 1
                    /\ SubSeq(saved', 1, Len(saved)) = saved
                    /\ saved'[Len(saved')].values = inputs_
                    /\ saved'[Len(saved')].suffix \in Suffixes]_vars

\* C15 witness: a registered handler was invoked with a two-byte buffer, and a
\* call with no handler registered was persisted by default
C15_BothWays ==
    /\ Len(handler_calls) = 1
    /\ handler_calls[1].size = 2
    /\ Len(saved) = 1

\* C17: verify(branch_node) is a no-op whenever the queue is empty or no
\* resident entry's dependency set is a subset of the branch's: the deferred
\* queue, the exact dependency set, the registry and the constraints submitted
\* to the solver are all unchanged.
C17_VerifyNoOp ==
    [][\A e \in Ids :
        (/\ _sym_asan_constraint_verify(e)
         /\ \/ g_delay_constraint_queue = <<>>
            \/ \A k \in DOMAIN g_delay_constraint_queue :
                   ~(getDependencies(k) \subseteq getDependencies(e)))
        => UNCHANGED <<g_delay_constraint_queue, g_exact_dependencies,
                       allocatedExpressions, jcc, exprs, aborted>>]_vars

\* C17 witness: the registry holds a branch node that no resident entry's
\* dependency set is a subset of, beside an entry of the queue
C17_NoMatchAtHand ==
    /\ QueueKeys # {}
    /\ \E e \in allocatedExpressions :
           \A k \in QueueKeys : ~(getDependencies(k) \subseteq getDependencies(e))

\* C19: in every reachable state, the symbolic-address identity stored in each
\* resident entry of the deferred queue has an entry in the registry.
C19_QueueAddrRegistered ==
    \A k \in QueueKeys : g_delay_constraint_queue[k][1] \in allocatedExpressions

\* the entries of the queue the branch of the drain covers
DrainCovered ==
    {k \in QueueKeys : getDependencies(k) \subseteq getDependencies(drain.branch)}

\* the verify calls of the drain that found an entry to promote
DrainPromotions == Len(jcc) - drain.submitted

\* C18: if verify is called repeatedly with a branch whose dependency set is a
\* superset of resident entries' dependency sets, and no garbage collection
\* intervenes, those entries are eventually promoted and removed; with no
\* further inserts, a queue of n entries all covered by the branch is empty
\* after exactly n verify calls, each of which promotes one entry, and the
\* exact dependency set then contains the union of the n dependency sets.
C18_EventualPromotion ==
    /\ [](drain # NoDrain
          => /\ ~aborted
             /\ QueueKeys \subseteq drain.entries
             /\ Cardinality(QueueKeys) = Cardinality(drain.entries) - DrainPromotions
             /\ g_exact_dependencies =
                    drain.exact \cup
                    UNION {getDependencies(k) : k \in drain.entries \ QueueKeys}
             /\ (\A k \in drain.entries :
                     getDependencies(k) \subseteq getDependencies(drain.branch))
                => /\ DrainPromotions < Cardinality(drain.entries) => DrainCovered # {}
                   /\ DrainPromotions = Cardinality(drain.entries)
                      => /\ g_delay_constraint_queue = <<>>
                         /\ \A k \in drain.entries :
                                getDependencies(k) \subseteq g_exact_dependencies)
    /\ (drain # NoDrain) ~> (drain # NoDrain /\ DrainCovered = {})

\* C18 witness: a drain that began with two entries, both covered by its
\* branch, has emptied the queue in two promotions
C18_DrainedTwo ==
    /\ drain # NoDrain
    /\ Cardinality(drain.entries) = 2
    /\ DrainPromotions = 2
    /\ g_delay_constraint_queue = <<>>
====
